---- MODULE Spec2Model ----
(***************************************************************************)
(* Model of src/runner.ts (class Runner of comment-failure-action).        *)
(*                                                                         *)
(* Strings are sequences of tokens.  Every token stands for a fixed piece  *)
(* of text, so that concatenation, String.includes, String.split and      *)
(* Array.join act on token sequences exactly as they act on the text:     *)
(*   "n"  = "\n"                      "S"  = "<!-- SEPARATOR -->"          *)
(*   "Ga" = "GitHub Action status on "                                     *)
(*   "gb" = " generated by comment-failure-action"                         *)
(*   "to" = "<!-- WORKFLOW:"          "tc" = " -->"                        *)
(*   "h"  = "### "                    "ok" = "No jobs failed :+1:"         *)
(*   "th" = "| job | url |"           "tr" = "|-----|-----|"               *)
(*   "p1" = "| "   "p2" = " | "       "p3" = " |"                          *)
(* and "a", "b", "c1", "c2", "f", "g", "j", "k", "u", "v", "x", "y" are     *)
(* plain words.                                                            *)
(***************************************************************************)
EXTENDS Integers, Sequences, FiniteSets, TLC

VARIABLES comments, labels, inv, started, failures, prev, latest, arg, ret

vars == <<comments, labels, inv, started, failures, prev, latest, arg, ret>>

-----------------------------------------------------------------------------
(* Bounds of the model *)

\* invocations of run() started in one behaviour
MaxInv == 3

\* remote calls that fail in one behaviour
MaxFailures == 1

\* check runs in one response of checks.listForSuite
MaxChecks == 1

\* length of the section lists given to the pure functions
MaxSections == 3

\* check runs in a response given to the pure functions
MaxRuns == 2

-----------------------------------------------------------------------------
(* String primitives of the JavaScript runtime *)

\* String.prototype.includes
Includes(s, sub) ==
  \E p \in 1..(Len(s) - Len(sub) + 1) : SubSeq(s, p, p + Len(sub) - 1) = sub

\* position of the leftmost occurrence of sub in s, 0 when there is none
IndexOf(s, sub) ==
  IF Includes(s, sub)
    THEN CHOOSE p \in 1..(Len(s) - Len(sub) + 1) :
           /\ SubSeq(s, p, p + Len(sub) - 1) = sub
           /\ \A q \in 1..(p - 1) : SubSeq(s, q, q + Len(sub) - 1) # sub
    ELSE 0

\* String.prototype.split with a non-empty string separator: the pieces
\* between the leftmost non-overlapping occurrences
RECURSIVE Split(_, _)
Split(s, sep) ==
  LET p == IndexOf(s, sep) IN
  IF p = 0
    THEN <<s>>
    ELSE <<SubSeq(s, 1, p - 1)>> \o Split(SubSeq(s, p + Len(sep), Len(s)), sep)

\* Array.prototype.join (Array.prototype.filter is SelectSeq)
RECURSIVE Join(_, _)
Join(list, sep) ==
  IF list = <<>> THEN <<>>
  ELSE IF Len(list) = 1 THEN list[1]
  ELSE list[1] \o sep \o Join(Tail(list), sep)

\* variant: the last body that includes sub
Find_last(bodies, sub) ==
  IF \E k \in 1..Len(bodies) : Includes(bodies[k], sub)
    THEN CHOOSE k \in 1..Len(bodies) :
           /\ Includes(bodies[k], sub)
           /\ \A m \in (k + 1)..Len(bodies) : ~Includes(bodies[m], sub)
    ELSE 0

\* Array.prototype.find with the test of find_comment, as an index: the
\* first body that includes sub, 0 when there is none
Find(bodies, sub) ==
  IF \E k \in 1..Len(bodies) : Includes(bodies[k], sub)
    THEN CHOOSE k \in 1..Len(bodies) :
           /\ Includes(bodies[k], sub)
           /\ \A m \in 1..(k - 1) : ~Includes(bodies[m], sub)
    ELSE 0

-----------------------------------------------------------------------------
(* Runner: constructor and the pure methods *)

\* variant: the signature does not name the commit
Runner_any_commit(head_branch, head_commit, workflow) ==
  [ head_branch |-> head_branch,
    head_commit |-> head_commit,
    workflow    |-> workflow,
    signature   |-> <<"Ga", "gb">>,
    separator   |-> <<"n", "S", "n">>,
    tag         |-> <<"to">> \o workflow \o <<"tc">> ]

\* the Runner object: env and the three strings the constructor derives from it
Runner(head_branch, head_commit, workflow) ==
  [ head_branch |-> head_branch,
    head_commit |-> head_commit,
    workflow    |-> workflow,
    signature   |-> <<"Ga">> \o head_commit \o <<"gb">>,
    separator   |-> <<"n", "S", "n">>,
    tag         |-> <<"to">> \o workflow \o <<"tc">> ]

\* variant: only undefined and null are refused, the empty string is not
is_pull_request_defined(this) == TRUE

is_pull_request(this) == this.head_branch # <<>>

\* one table row per failed run, in the order supplied
RECURSIVE Rows(_)
Rows(failed_runs) ==
  IF failed_runs = <<>> THEN <<>>
  ELSE << <<"p1">> \o failed_runs[1].title \o <<"p2">>
            \o failed_runs[1].html_url \o <<"p3">> >>
       \o Rows(Tail(failed_runs))

\* variant: the table is rendered whether or not a run failed
generate_section_always_table(this, failed_runs) ==
  LET strings ==
        <<this.tag, <<"h">> \o this.workflow>>
        \o << <<"th">>, <<"tr">> >> \o Rows(failed_runs)
  IN Join(strings, <<"n">>)

generate_section(this, failed_runs) ==
  LET strings ==
        <<this.tag, <<"h">> \o this.workflow>>
        \o (IF Len(failed_runs) = 0
              THEN << <<"ok">> >>
              ELSE << <<"th">>, <<"tr">> >> \o Rows(failed_runs))
  IN Join(strings, <<"n">>)

\* variant: the element holding the signature is not filtered out
split_body_unfiltered(this, body) == Split(body, this.separator)

split_body(this, body) ==
  LET NoSignature(section) == ~Includes(section, this.signature)
  IN SelectSeq(Split(body, this.separator), NoSignature)

\* variant: only the first element carrying the tag is replaced
replace_first_only(this, section, old_sections) ==
  LET Tagged(k) == Includes(old_sections[k], this.tag)
      Marked == {k \in 1..Len(old_sections) : Tagged(k)}
  IN IF Marked = {}
       THEN Append(old_sections, section)
       ELSE LET f == CHOOSE k \in Marked : \A m \in Marked : k <= m
            IN [old_sections EXCEPT ![f] = section]

\* variant: the replaced flag is never consulted, the section is always pushed
replace_and_append(this, section, old_sections) ==
  Append([k \in 1..Len(old_sections) |->
            IF Includes(old_sections[k], this.tag)
              THEN section
              ELSE old_sections[k]],
         section)

\* variant: the elements carrying the tag are dropped and the section pushed
remove_and_append(this, section, old_sections) ==
  LET Untagged(old_section) == ~Includes(old_section, this.tag)
  IN Append(SelectSeq(old_sections, Untagged), section)

replace_or_append_section(this, section, old_sections) ==
  LET replaced == \E k \in 1..Len(old_sections) :
                     Includes(old_sections[k], this.tag)
      new_sections ==
        [k \in 1..Len(old_sections) |->
           IF Includes(old_sections[k], this.tag)
             THEN section
             ELSE old_sections[k]]
  IN IF ~replaced THEN Append(new_sections, section) ELSE new_sections

\* variant: the signature is not prepended
generate_body_unsigned(this, sections) == Join(sections, this.separator)

generate_body(this, sections) ==
  Join(<<this.signature>> \o sections, this.separator)

-----------------------------------------------------------------------------
(* The remote repository and the inputs of an invocation *)

Invs == {1, 2}

PRs == {1, 2}

Branches == {<<>>, <<"f">>, <<"g">>}

Commits == {<<"c1">>, <<"c2">>}

Workflows == {<<"a">>, <<"b">>}

\* pulls.list (state open, head owner:branch): branch f heads two open pull
\* requests, every other branch none
OpenPulls(head_branch) == IF head_branch = <<"f">> THEN <<1, 2>> ELSE <<>>

\* output.title of a check run is free text: a plain word, the separator, a
\* Signature, the ownership tag of workflow a
Titles ==
  { <<"j">>,
    <<"n", "S", "n">>,
    <<"Ga", "c1", "gb">>,
    <<"to", "a", "tc">> }

PlainTitles == { <<"j">> }

Conclusions == {"success", "neutral", "skipped", "failure"}

CheckRuns ==
  { [title |-> t, html_url |-> <<"u">>, conclusion |-> "failure"] : t \in Titles }
  \cup
  { [title |-> <<"j">>, html_url |-> <<"u">>, conclusion |-> c] : c \in Conclusions }

RECURSIVE SeqsUpTo(_, _)
SeqsUpTo(S, n) ==
  IF n = 0 THEN {<<>>}
  ELSE LET shorter == SeqsUpTo(S, n - 1)
       IN shorter \cup {Append(q, x) : q \in shorter, x \in S}

\* the possible responses of checks.listForSuite (status completed)
Responses == SeqsUpTo(CheckRuns, MaxChecks)

\* variant: only success is filtered out
FailedOf_not_success(response) ==
  LET Failed(check_run) == check_run.conclusion # "success"
  IN SelectSeq(response, Failed)

\* the filter of find_failed_check_runs
FailedOf(response) ==
  LET Failed(check_run) ==
        check_run.conclusion # "success" /\ check_run.conclusion # "neutral"
  IN SelectSeq(response, Failed)

NoComment == [id |-> 0, body |-> <<>>]

NoRunner == Runner(<<>>, <<>>, <<>>)

IdleInv ==
  [ pc          |-> "idle",
    this        |-> NoRunner,
    prs         |-> <<>>,
    failed_runs |-> <<>>,
    section     |-> <<>>,
    k           |-> 0,
    comment     |-> NoComment,
    calls       |-> <<>> ]

\* history: the section each workflow last wrote to a pull request for a
\* commit, <<>> when it wrote none
NoSection == [p \in PRs |-> [cw \in Commits \X Workflows |-> <<>>]]

NoPrev == [valid |-> FALSE, failed_runs |-> <<>>,
           comments |-> [p \in PRs |-> <<>>]]

\* one remote call as the API saw it: the operation, the pull request, the
\* comment id and body sent, the comments a listing returned, the body an
\* update overwrote, and whether the call succeeded
Call(op, pr, id, body, listing, old, ok) ==
  [op |-> op, pr |-> pr, id |-> id, body |-> body, listing |-> listing,
   old |-> old, ok |-> ok]

\* pull request 1 has no comment, pull request 2 one comment of a person
Init ==
  /\ comments = [p \in PRs |-> IF p = 2 THEN << <<"x">> >> ELSE <<>>]
  /\ labels = {}
  /\ inv = [i \in Invs |-> IdleInv]
  /\ started = 0
  /\ failures = 0
  /\ prev = NoPrev
  /\ latest = NoSection
  /\ arg = <<>>
  /\ ret = <<>>

Finished(i) == inv[i].pc \in {"idle", "done", "failed"}

-----------------------------------------------------------------------------
(* run(), one action per remote call *)

\* the constructor and the applicability gate of run
Start(i, branches, commits) ==
  /\ Finished(i)
  /\ started < MaxInv
  /\ \E b \in branches, c \in commits, w \in Workflows :
       LET this == Runner(b, c, w) IN
       /\ inv' = [inv EXCEPT ![i] =
                    [IdleInv EXCEPT
                       !.this = this,
                       !.pc = IF is_pull_request(this)
                                THEN "find_pull_requests" ELSE "done"]]
       \* history: when the invocation that just completed is run again, what
       \* it was given and what it left behind
       /\ prev' = IF inv[i].pc = "done" /\ inv[i].this = this
                    THEN [valid       |-> TRUE,
                          failed_runs |-> inv[i].failed_runs,
                          comments    |-> comments]
                    ELSE NoPrev
  /\ started' = started + 1
  /\ UNCHANGED <<comments, labels, failures, latest, arg, ret>>

\* the loop of run moves to the next pull request, or run returns
NextPull(r) ==
  IF r.k < Len(r.prs)
    THEN [r EXCEPT !.k = r.k + 1, !.pc = "find_comment", !.comment = NoComment]
    ELSE [r EXCEPT !.pc = "done"]

\* variant: run does not return when there is no open pull request
find_pull_requests_no_return(i) ==
  /\ inv[i].pc = "find_pull_requests"
  /\ LET r == inv[i] IN
     inv' = [inv EXCEPT ![i] =
               [r EXCEPT !.prs = OpenPulls(r.this.head_branch),
                         !.pc = "find_failed_check_runs",
                         !.calls = Append(r.calls,
                            Call("pulls.list", 0, 0, <<>>, <<>>, <<>>, TRUE))]]
  /\ UNCHANGED <<comments, labels, started, failures, prev, latest, arg, ret>>

find_pull_requests(i) ==
  /\ inv[i].pc = "find_pull_requests"
  /\ LET r   == inv[i]
         prs == OpenPulls(r.this.head_branch)
         r1  == [r EXCEPT !.prs = prs,
                          !.calls = Append(r.calls,
                             Call("pulls.list", 0, 0, <<>>, <<>>, <<>>, TRUE))]
     IN inv' = [inv EXCEPT ![i] =
                  IF Len(prs) = 0
                    THEN [r1 EXCEPT !.pc = "done"]
                    ELSE [r1 EXCEPT !.pc = "find_failed_check_runs"]]
  /\ UNCHANGED <<comments, labels, started, failures, prev, latest, arg, ret>>

\* find_failed_check_runs, then generate_section
find_failed_check_runs(i, responses) ==
  /\ inv[i].pc = "find_failed_check_runs"
  /\ \E response \in responses :
       LET r           == inv[i]
           failed_runs == FailedOf(response)
       IN inv' = [inv EXCEPT ![i] =
                    [r EXCEPT
                       !.failed_runs = failed_runs,
                       !.section = generate_section(r.this, failed_runs),
                       !.k = 1,
                       !.pc = "find_comment",
                       !.calls = Append(r.calls,
                          Call("checks.listForSuite", 0, 0, <<>>, <<>>, <<>>, TRUE))]]
  /\ UNCHANGED <<comments, labels, started, failures, prev, latest, arg, ret>>

\* variant: a comment that exists is updated only when there are failures
Branch_failures_only(found, failed_runs) ==
  IF Len(failed_runs) = 0 THEN "next"
  ELSE IF found THEN "update_comment"
  ELSE "create_comment"

\* variant: a comment is created whenever none exists
Branch_create_always(found, failed_runs) ==
  IF found THEN "update_comment" ELSE "create_comment"

\* what the loop body of run does with the comment find_comment returned
Branch(found, failed_runs) ==
  IF found THEN "update_comment"
  ELSE IF Len(failed_runs) > 0 THEN "create_comment"
  ELSE "next"

find_comment(i) ==
  /\ inv[i].pc = "find_comment"
  /\ LET r  == inv[i]
         pr == r.prs[r.k]
         id == Find(comments[pr], r.this.signature)
         r1 == [r EXCEPT !.calls = Append(r.calls,
                   Call("issues.listComments", pr, 0, <<>>, comments[pr], <<>>, TRUE))]
         r2 == IF id # 0
                 THEN [r1 EXCEPT !.comment = [id |-> id, body |-> comments[pr][id]]]
                 ELSE r1
         to == Branch(id # 0, r.failed_runs)
     IN inv' = [inv EXCEPT ![i] =
                  IF to = "next" THEN NextPull(r2) ELSE [r2 EXCEPT !.pc = to]]
  /\ UNCHANGED <<comments, labels, started, failures, prev, latest, arg, ret>>

\* variant: the body is read again when it is written
update_comment_fresh(i) ==
  /\ inv[i].pc = "update_comment"
  /\ LET r            == inv[i]
         pr           == r.prs[r.k]
         old_sections == split_body(r.this, comments[pr][r.comment.id])
         new_sections == replace_or_append_section(r.this, r.section, old_sections)
         body         == generate_body(r.this, new_sections)
     IN /\ comments' = [comments EXCEPT ![pr][r.comment.id] = body]
        /\ latest' = [latest EXCEPT ![pr][<<r.this.head_commit, r.this.workflow>>] = r.section]
        /\ inv' = [inv EXCEPT ![i] =
                     [r EXCEPT !.pc = "add_label",
                               !.calls = Append(r.calls,
                                  Call("issues.updateComment", pr, r.comment.id,
                                       body, <<>>, comments[pr][r.comment.id], TRUE))]]
  /\ UNCHANGED <<labels, started, failures, prev, arg, ret>>

update_comment(i) ==
  /\ inv[i].pc = "update_comment"
  /\ LET r            == inv[i]
         pr           == r.prs[r.k]
         old_sections == split_body(r.this, r.comment.body)
         new_sections == replace_or_append_section(r.this, r.section, old_sections)
         body         == generate_body(r.this, new_sections)
     IN /\ comments' = [comments EXCEPT ![pr][r.comment.id] = body]
        /\ latest' = [latest EXCEPT ![pr][<<r.this.head_commit, r.this.workflow>>] = r.section]
        /\ inv' = [inv EXCEPT ![i] =
                     [r EXCEPT !.pc = "add_label",
                               !.calls = Append(r.calls,
                                  Call("issues.updateComment", pr, r.comment.id,
                                       body, <<>>, comments[pr][r.comment.id], TRUE))]]
  /\ UNCHANGED <<labels, started, failures, prev, arg, ret>>

create_comment(i) ==
  /\ inv[i].pc = "create_comment"
  /\ LET r    == inv[i]
         pr   == r.prs[r.k]
         body == generate_body(r.this, <<r.section>>)
     IN /\ comments' = [comments EXCEPT ![pr] = Append(@, body)]
        /\ latest' = [latest EXCEPT ![pr][<<r.this.head_commit, r.this.workflow>>] = r.section]
        /\ inv' = [inv EXCEPT ![i] =
                     [r EXCEPT !.pc = "add_label",
                               !.calls = Append(r.calls,
                                  Call("issues.createComment", pr,
                                       Len(comments[pr]) + 1, body, <<>>, <<>>, TRUE))]]
  /\ UNCHANGED <<labels, started, failures, prev, arg, ret>>

add_label(i) ==
  /\ inv[i].pc = "add_label"
  /\ LET r  == inv[i]
         pr == r.prs[r.k]
     IN /\ labels' = labels \cup {pr}
        /\ inv' = [inv EXCEPT ![i] =
                     NextPull([r EXCEPT !.calls = Append(r.calls,
                        Call("issues.addLabels", pr, 0, <<>>, <<>>, <<>>, TRUE))])]
  /\ UNCHANGED <<comments, started, failures, prev, latest, arg, ret>>

\* the remote call run is waiting for
PendingCall(r) ==
  CASE r.pc = "find_pull_requests"     -> "pulls.list"
    [] r.pc = "find_failed_check_runs" -> "checks.listForSuite"
    [] r.pc = "find_comment"           -> "issues.listComments"
    [] r.pc = "update_comment"         -> "issues.updateComment"
    [] r.pc = "create_comment"         -> "issues.createComment"
    [] r.pc = "add_label"              -> "issues.addLabels"

\* variant: the call that threw is made again
RemoteCallFailure_retry(i) ==
  /\ ~Finished(i)
  /\ failures < MaxFailures
  /\ failures' = failures + 1
  /\ LET r == inv[i] IN
     inv' = [inv EXCEPT ![i] =
               [r EXCEPT !.calls = Append(r.calls,
                            Call(PendingCall(r),
                                 IF r.k = 0 THEN 0 ELSE r.prs[r.k],
                                 0, <<>>, <<>>, <<>>, FALSE))]]
  /\ UNCHANGED <<comments, labels, started, prev, latest, arg, ret>>

\* a remote call throws: nothing in run catches it, the invocation ends
RemoteCallFailure(i) ==
  /\ ~Finished(i)
  /\ failures < MaxFailures
  /\ failures' = failures + 1
  /\ LET r == inv[i] IN
     inv' = [inv EXCEPT ![i] =
               [r EXCEPT !.pc = "failed",
                         !.calls = Append(r.calls,
                            Call(PendingCall(r),
                                 IF r.k = 0 THEN 0 ELSE r.prs[r.k],
                                 0, <<>>, <<>>, <<>>, FALSE))]]
  /\ UNCHANGED <<comments, labels, started, prev, latest, arg, ret>>

Step(i, responses) ==
  \/ find_pull_requests(i)
  \/ find_failed_check_runs(i, responses)
  \/ find_comment(i)
  \/ update_comment(i)
  \/ create_comment(i)
  \/ add_label(i)
  \/ RemoteCallFailure(i)

\* responses in which every title is a plain word
PlainResponses == {r \in Responses : \A k \in 1..Len(r) : r[k].title \in PlainTitles}

\* invocations for one branch and commit interleave at the remote calls
Next ==
  \/ \E i \in Invs : Start(i, {<<"f">>}, {<<"c1">>})
  \/ \E i \in Invs : Step(i, PlainResponses)

Spec == Init /\ [][Next]_vars

\* invocations run one after another, for any branch and commit
StartSeq == Start(1, Branches, Commits) /\ \A i \in Invs : Finished(i)

NextSeq ==
  \/ StartSeq
  \/ Step(1, Responses)

SpecSeq == Init /\ [][NextSeq]_vars

\* job titles that contain neither the separator nor a signature
CleanTitles ==
  {t \in Titles :
     /\ ~Includes(t, NoRunner.separator)
     /\ \A c \in Commits : ~Includes(t, Runner(<<>>, c, <<>>).signature)}

CleanResponses == {r \in Responses : \A k \in 1..Len(r) : r[k].title \in CleanTitles}

\* invocations run one after another on check runs with such titles
NextClean ==
  \/ StartSeq
  \/ Step(1, CleanResponses)

SpecClean == Init /\ [][NextClean]_vars

-----------------------------------------------------------------------------
(* The pure methods applied to drawn inputs *)

\* section texts: empty, plain, carrying the tag of workflow a or b, ending
\* with the separator less its last newline, holding the separator, holding
\* the Signature of commit c1
Texts ==
  { <<>>,
    <<"x">>,
    <<"to", "a", "tc", "x">>,
    <<"to", "a", "tc", "y">>,
    <<"to", "b", "tc", "x">>,
    <<"x", "n", "S">>,
    <<"x", "n", "S", "n", "y">>,
    <<"Ga", "c1", "gb", "x">> }

\* check runs of two jobs: job j with every conclusion, job k failed
CheckRunsFn ==
  { [title |-> <<"j">>, html_url |-> <<"u">>, conclusion |-> c] : c \in Conclusions }
  \cup
  { [title |-> <<"k">>, html_url |-> <<"v">>, conclusion |-> "failure"] }

\* the inputs: section lists for the body methods, or a response of
\* checks.listForSuite for find_failed_check_runs and generate_section
Args ==
  [ this     : {Runner(<<"f">>, <<"c1">>, w) : w \in Workflows},
    sections : SeqsUpTo(Texts, MaxSections),
    section  : Texts,
    response : {<<>>} ]
  \cup
  [ this     : {Runner(<<"f">>, <<"c1">>, w) : w \in Workflows},
    sections : {<<>>},
    section  : {<<>>},
    response : SeqsUpTo(CheckRunsFn, MaxRuns) ]

NoRet == [op |-> "none", out |-> <<>>, first |-> <<>>]

InitFn ==
  /\ comments = [p \in PRs |-> <<>>]
  /\ labels = {}
  /\ inv = [i \in Invs |-> IdleInv]
  /\ started = 0
  /\ failures = 0
  /\ prev = NoPrev
  /\ latest = NoSection
  /\ arg \in Args
  /\ ret = NoRet

frame == <<comments, labels, inv, started, failures, prev, latest, arg>>

\* replace_or_append_section(section, sections)
Reconcile ==
  /\ ret.op = "none"
  /\ ret' = [op    |-> "reconcile",
             out   |-> replace_or_append_section(arg.this, arg.section, arg.sections),
             first |-> <<>>]
  /\ UNCHANGED frame

\* replace_or_append_section(section, .) applied to its own result
ReconcileAgain ==
  /\ ret.op = "reconcile"
  /\ ret' = [op    |-> "reconcile_again",
             out   |-> replace_or_append_section(arg.this, arg.section, ret.out),
             first |-> ret.out]
  /\ UNCHANGED frame

\* generate_body(sections)
Render ==
  /\ ret.op = "none"
  /\ ret' = [op    |-> "generate_body",
             out   |-> generate_body(arg.this, arg.sections),
             first |-> <<>>]
  /\ UNCHANGED frame

\* split_body applied to the body generate_body returned
Parse ==
  /\ ret.op = "generate_body"
  /\ ret' = [op    |-> "split_body",
             out   |-> split_body(arg.this, ret.out),
             first |-> ret.out]
  /\ UNCHANGED frame

\* the filter of find_failed_check_runs applied to the response
FindFailed ==
  /\ ret.op = "none"
  /\ ret' = [op    |-> "find_failed_check_runs",
             out   |-> FailedOf(arg.response),
             first |-> <<>>]
  /\ UNCHANGED frame

\* generate_section applied to the failed runs, as run does
GenerateSection ==
  /\ ret.op = "find_failed_check_runs"
  /\ ret' = [op    |-> "generate_section",
             out   |-> generate_section(arg.this, ret.out),
             first |-> ret.out]
  /\ UNCHANGED frame

NextFn ==
  \/ Reconcile
  \/ ReconcileAgain
  \/ Render
  \/ Parse
  \/ FindFailed
  \/ GenerateSection

SpecFn == InitFn /\ [][NextFn]_vars

-----------------------------------------------------------------------------
(* Properties of the pure methods, under SpecFn *)

separator == <<"n", "S", "n">>

HasTag(text) == Includes(text, arg.this.tag)

TaggedAt == {k \in 1..Len(arg.sections) : HasTag(arg.sections[k])}

\* C4 as stated: replace_or_append_section replaces the first element that
\* contains the tag only; every element after it, tagged or not, is returned
\* unchanged ([A, B, C] with A and C tagged gives [new, B, C])
C4_FirstOccurrenceOnly ==
  (ret.op = "reconcile" /\ TaggedAt # {}) =>
    LET f == CHOOSE k \in TaggedAt : \A m \in TaggedAt : k <= m
    IN /\ Len(ret.out) = Len(arg.sections)
       /\ ret.out[f] = arg.section
       /\ \A k \in 1..Len(arg.sections) : k # f => ret.out[k] = arg.sections[k]

\* C4 amended: replace_or_append_section replaces every element that contains
\* the tag by the new section and returns every other element unchanged at its
\* position ([A, B, C] with A and C tagged gives [new, B, new]); the section is
\* appended exactly when no element contains the tag
C4_EveryOccurrenceReplaced ==
  ret.op = "reconcile" =>
    /\ Len(ret.out) = Len(arg.sections) + (IF TaggedAt = {} THEN 1 ELSE 0)
    /\ \A k \in 1..Len(arg.sections) :
         ret.out[k] = IF k \in TaggedAt THEN arg.section ELSE arg.sections[k]
    /\ TaggedAt = {} => ret.out[Len(ret.out)] = arg.section

\* old = [A, B, C], A and C tagged, B not, C other than the new section:
\* the result is [new, B, new]
C4_Witness ==
  /\ ret.op = "reconcile"
  /\ Len(arg.sections) = 3
  /\ TaggedAt = {1, 3}
  /\ arg.sections[3] # arg.section
  /\ ret.out = <<arg.section, arg.sections[2], arg.section>>

\* C5 as stated: for every list old and every text s,
\* replace_or_append_section(s, replace_or_append_section(s, old)) equals
\* replace_or_append_section(s, old)
C5_IdempotentForEverySection ==
  ret.op = "reconcile_again" => ret.out = ret.first

\* C5 amended: the same, for every text s that contains the invocation's
\* ownership tag (as every section generate_section returns does)
C5_IdempotentForTaggedSection ==
  (ret.op = "reconcile_again" /\ HasTag(arg.section)) => ret.out = ret.first

\* a tagged section reconciled twice into a list that holds a tagged and an
\* untagged element
C5_Witness ==
  /\ ret.op = "reconcile_again"
  /\ HasTag(arg.section)
  /\ TaggedAt # {}
  /\ TaggedAt # 1..Len(arg.sections)
  /\ ret.first # arg.sections
  /\ ret.out = ret.first

\* C6: split_body(generate_body(sections)) = sections whenever no element
\* contains the separator or the Signature
C6_RoundTrip ==
  ( /\ ret.op = "split_body"
    /\ \A k \in 1..Len(arg.sections) :
         /\ ~Includes(arg.sections[k], separator)
         /\ ~Includes(arg.sections[k], arg.this.signature) )
  => ret.out = arg.sections

-----------------------------------------------------------------------------
(* Properties of run *)

Signature(head_commit) == <<"Ga">> \o head_commit \o <<"gb">>

Tag(workflow) == <<"to">> \o workflow \o <<"tc">>

\* the pieces of a body between separators; by the grammar of a body the
\* first is the Signature and the others are the sections
Pieces(body) == Split(body, separator)

Sections(body) == Tail(Pieces(body))

BeginsWith(text, head) ==
  Len(text) >= Len(head) /\ SubSeq(text, 1, Len(head)) = head

\* the calls invocation i made for pull request pr, in order
CallsFor(i, pr) ==
  LET ForPull(c) == c.pr = pr
  IN SelectSeq(inv[i].calls, ForPull)

\* a is b with some elements left out
RECURSIVE IsSubseq(_, _)
IsSubseq(a, b) ==
  IF a = <<>> THEN TRUE
  ELSE IF b = <<>> THEN FALSE
  ELSE IF a[1] = b[1] THEN IsSubseq(Tail(a), Tail(b))
  ELSE IsSubseq(a, Tail(b))

SignedComments(p, head_commit) ==
  {k \in 1..Len(comments[p]) : Includes(comments[p][k], Signature(head_commit))}

\* C1: invocations for one commit that interleave at the remote calls never
\* leave a pull request with more than one comment containing the Signature
C1_OneSignedComment ==
  \A p \in PRs : Cardinality(SignedComments(p, <<"c1">>)) <= 1

\* C2: in every comment body, after invocations run one after another from
\* pull requests without managed comment, at most one section begins with the
\* ownership tag of a given workflow
C2_OneSectionPerTag ==
  \A p \in PRs : \A k \in 1..Len(comments[p]) : \A w \in Workflows :
    LET secs == Sections(comments[p][k])
    IN Cardinality({m \in 1..Len(secs) : BeginsWith(secs[m], Tag(w))}) <= 1

\* what an update did to the sections: c is an issues.updateComment call of
\* invocation i. Kept(_) says which old sections the claim speaks of
UpdateKeeps(i, c, Kept(_)) ==
  IsSubseq(SelectSeq(Sections(c.old), Kept), Sections(c.body))

\* the new section stands where the first old piece carrying the tag stood, or
\* at the end when there was none (old pieces that contain the Signature are
\* not counted: split_body drops them)
UpdateInPlace(i, c) ==
  LET this == inv[i].this
      NotSigned(x) == ~Includes(x, this.signature)
      old == SelectSeq(Pieces(c.old), NotSigned)
      new == Sections(c.body)
      sec == Pieces(inv[i].section)
      tagged == {k \in 1..Len(old) : Includes(old[k], this.tag)}
  IN IF tagged = {}
       THEN new = old \o sec
       ELSE LET f == CHOOSE k \in tagged : \A m \in tagged : k <= m
            IN /\ \A k \in 1..(f - 1) : new[k] = old[k]
               /\ SubSeq(new, f, f + Len(sec) - 1) = sec

Updates(i) ==
  {n \in 1..Len(inv[i].calls) :
     inv[i].calls[n].op = "issues.updateComment" /\ inv[i].calls[n].ok}

\* C3 as stated: an update by workflow W keeps every section of the old body
\* that does not contain W's tag, with the same content and in the same order
C3_OtherSectionsKept ==
  \A i \in Invs : \A n \in Updates(i) :
    LET Other(x) == ~Includes(x, inv[i].this.tag)
    IN UpdateKeeps(i, inv[i].calls[n], Other)

\* C3 amended: an update by workflow W keeps every section of the old body
\* that contains neither W's tag nor the invocation's Signature, with the same
\* content and in the same order, and W's section is replaced in place, or
\* appended at the end when no section carried W's tag
C3_OtherUnsignedSectionsKept ==
  \A i \in Invs : \A n \in Updates(i) :
    LET Other(x) == /\ ~Includes(x, inv[i].this.tag)
                    /\ ~Includes(x, inv[i].this.signature)
    IN /\ UpdateKeeps(i, inv[i].calls[n], Other)
       /\ UpdateInPlace(i, inv[i].calls[n])

\* an update that replaced W's section in front of another workflow's section
\* and kept that one
C3_Witness ==
  \E i \in Invs : \E n \in Updates(i) :
    LET c == inv[i].calls[n]
        old == Sections(c.old)
        new == Sections(c.body)
    IN /\ Len(old) = 2 /\ Len(new) = 2
       /\ Includes(old[1], inv[i].this.tag)
       /\ ~Includes(old[2], inv[i].this.tag)
       /\ new[1] = inv[i].section
       /\ new[1] # old[1]
       /\ new[2] = old[2]

SameInvocationAgain(i) ==
  /\ inv[i].pc = "done"
  /\ prev.valid
  /\ prev.failed_runs = inv[i].failed_runs

\* C7 as stated: the same invocation run twice in succession on the same
\* inputs leaves every comment as the first run left it
C7_RepeatableOutput ==
  \A i \in Invs : SameInvocationAgain(i) => comments = prev.comments

\* C7 amended: the same, provided the section the invocation renders contains
\* neither the separator nor the Signature
C7_RepeatableCleanOutput ==
  \A i \in Invs :
    ( /\ SameInvocationAgain(i)
      /\ ~Includes(inv[i].section, separator)
      /\ ~Includes(inv[i].section, inv[i].this.signature) )
    => comments = prev.comments

\* a second run with failures that updated the comment of each pull request
\* and left the bodies as they were
C7_Witness ==
  \E i \in Invs :
    /\ SameInvocationAgain(i)
    /\ Len(inv[i].failed_runs) > 0
    /\ ~Includes(inv[i].section, separator)
    /\ ~Includes(inv[i].section, inv[i].this.signature)
    /\ Cardinality(Updates(i)) = 2
    /\ comments = prev.comments

\* C8: with an empty head_branch run returns without any remote call
C8_GateNoRemoteCall ==
  \A i \in Invs :
    (inv[i].pc # "idle" /\ inv[i].this.head_branch = <<>>) =>
      /\ inv[i].pc = "done"
      /\ inv[i].calls = <<>>

\* an invocation with an empty head_branch has returned
C8_Witness ==
  \E i \in Invs :
    /\ inv[i].pc = "done"
    /\ inv[i].this.head_branch = <<>>
    /\ inv[i].this.workflow # <<>>

Unsigned(i, listing) ==
  \A k \in 1..Len(listing) : ~Includes(listing[k], inv[i].this.signature)

\* C9: for a pull request without comment containing the Signature and with
\* failed runs, a completed invocation has made, after the listing, exactly
\* one createComment whose body is the Signature, the separator and the one
\* rendered section, then one addLabels, and no updateComment
C9_CreateThenLabel ==
  \A i \in Invs : inv[i].pc = "done" =>
    \A n \in 1..Len(inv[i].prs) :
      LET pr == inv[i].prs[n]
          cs == CallsFor(i, pr)
      IN ( /\ Len(inv[i].failed_runs) > 0
           /\ Len(cs) > 0
           /\ cs[1].op = "issues.listComments"
           /\ Unsigned(i, cs[1].listing) )
         => /\ Len(cs) = 3
            /\ cs[2].op = "issues.createComment"
            /\ cs[2].body = inv[i].this.signature \o separator \o inv[i].section
            /\ BeginsWith(inv[i].section, inv[i].this.tag)
            /\ cs[3].op = "issues.addLabels"
            /\ pr \in labels

\* a completed invocation created a comment on a pull request
C9_Witness ==
  \E i \in Invs : \E pr \in PRs :
    /\ inv[i].pc = "done"
    /\ Len(inv[i].failed_runs) > 0
    /\ Len(CallsFor(i, pr)) = 3
    /\ Unsigned(i, CallsFor(i, pr)[1].listing)
    /\ CallsFor(i, pr)[2].op = "issues.createComment"

AllClear(workflow) ==
  Tag(workflow) \o <<"n", "h">> \o workflow \o <<"n", "ok">>

\* C10: for a pull request with a comment containing the Signature, a
\* completed invocation has made, after the listing, one updateComment of the
\* first such comment and then one addLabels, with or without failed runs;
\* without failed runs the new body has a section carrying the invocation's
\* tag and every such section reads "No jobs failed :+1:"
C10_UpdateThenLabel ==
  \A i \in Invs : inv[i].pc = "done" =>
    \A n \in 1..Len(inv[i].prs) :
      LET pr == inv[i].prs[n]
          cs == CallsFor(i, pr)
      IN ( /\ Len(cs) > 0
           /\ cs[1].op = "issues.listComments"
           /\ ~Unsigned(i, cs[1].listing) )
         => /\ Len(cs) = 3
            /\ cs[2].op = "issues.updateComment"
            /\ cs[2].id \in 1..Len(cs[1].listing)
            /\ Includes(cs[1].listing[cs[2].id], inv[i].this.signature)
            /\ Unsigned(i, SubSeq(cs[1].listing, 1, cs[2].id - 1))
            /\ cs[3].op = "issues.addLabels"
            /\ pr \in labels
            /\ Len(inv[i].failed_runs) = 0 =>
                 LET new == Sections(cs[2].body)
                     mine == {m \in 1..Len(new) : Includes(new[m], inv[i].this.tag)}
                 IN /\ mine # {}
                    /\ \A m \in mine : new[m] = AllClear(inv[i].this.workflow)

\* a completed invocation without failed runs turned its section, which listed
\* a failure, into the all-clear section and left another workflow's section
C10_Witness ==
  \E i \in Invs : \E pr \in PRs :
    LET cs == CallsFor(i, pr) IN
    /\ inv[i].pc = "done"
    /\ Len(inv[i].failed_runs) = 0
    /\ Len(cs) = 3
    /\ cs[2].op = "issues.updateComment"
    /\ cs[3].op = "issues.addLabels"
    /\ Len(Sections(cs[2].old)) = 2
    /\ Includes(cs[2].old, Tag(inv[i].this.workflow) \o <<"n", "h">>
                             \o inv[i].this.workflow \o <<"n", "th">>)
    /\ \E m \in 1..2 :
         /\ Sections(cs[2].body)[m] = AllClear(inv[i].this.workflow)
         /\ Sections(cs[2].body)[3 - m] = Sections(cs[2].old)[3 - m]
         /\ Sections(cs[2].old)[m] # Sections(cs[2].body)[m]

\* C11: for a pull request without comment containing the Signature and
\* without failed runs, the invocation makes no call after the listing: no
\* createComment, no updateComment, no addLabels; the comments stay as listed
C11_NothingToReport ==
  \A i \in Invs : \A n \in 1..Len(inv[i].prs) :
    LET pr == inv[i].prs[n]
        cs == CallsFor(i, pr)
    IN ( /\ Len(inv[i].failed_runs) = 0
         /\ Len(cs) > 0
         /\ cs[1].op = "issues.listComments"
         /\ cs[1].ok
         /\ Unsigned(i, cs[1].listing) )
       => /\ Len(cs) = 1
          /\ comments[pr] = cs[1].listing

\* a completed invocation without failed runs listed the comments of both
\* pull requests, found none with the Signature and made no other call
C11_Witness ==
  \E i \in Invs :
    /\ inv[i].pc = "done"
    /\ Len(inv[i].prs) = 2
    /\ Len(inv[i].failed_runs) = 0
    /\ Len(inv[i].calls) = 4
    /\ \A n \in 3..4 :
         /\ inv[i].calls[n].op = "issues.listComments"
         /\ Unsigned(i, inv[i].calls[n].listing)

\* C12: when pulls.list returns no open pull request, run returns after that
\* one call: no check runs, no comments are fetched, nothing is written
C12_NoPullRequestNoCall ==
  \A i \in Invs :
    ( /\ Len(inv[i].calls) > 0
      /\ inv[i].calls[1].op = "pulls.list"
      /\ inv[i].calls[1].ok
      /\ inv[i].prs = <<>> )
    => /\ inv[i].pc = "done"
       /\ Len(inv[i].calls) = 1

\* an invocation for a branch without open pull request has returned
C12_Witness ==
  \E i \in Invs :
    /\ inv[i].pc = "done"
    /\ inv[i].this.head_branch = <<"g">>
    /\ inv[i].prs = <<>>
    /\ Len(inv[i].calls) = 1
    /\ inv[i].calls[1].op = "pulls.list"

-----------------------------------------------------------------------------
(* Properties of find_failed_check_runs and generate_section, under SpecFn *)

\* the row generate_section renders for a check run
RowOf(check_run) ==
  <<"p1">> \o check_run.title \o <<"p2">> \o check_run.html_url \o <<"p3">>

NotFailed(conclusions) ==
  {k \in 1..Len(arg.response) : arg.response[k].conclusion \in conclusions}

\* C13 as stated: a check run with conclusion skipped, neutral or success is
\* never in the failed-run list and never gets a table row; a response of
\* such runs only gives the empty list, which is what lets run create nothing
C13_SkippedNeutralSuccessDropped ==
  LET lenient == NotFailed({"skipped", "neutral", "success"}) IN
  /\ ret.op = "find_failed_check_runs" =>
       /\ \A k \in 1..Len(ret.out) :
            ret.out[k].conclusion \notin {"skipped", "neutral", "success"}
       /\ (lenient = DOMAIN arg.response) => ret.out = <<>>
  /\ ret.op = "generate_section" =>
       \A k \in lenient : ~Includes(ret.out, RowOf(arg.response[k]))

\* C13: a check run with conclusion neutral or success is never in the
\* failed-run list and never gets a table row; every other run, a skipped one
\* included, is in the list, in the order of the response, and gets a row, so
\* that a response with a skipped run gives a non-empty list
C13_NeutralSuccessDropped ==
  LET passed == NotFailed({"neutral", "success"})
      others == DOMAIN arg.response \ passed
  IN
  /\ ret.op = "find_failed_check_runs" =>
       /\ \A k \in 1..Len(ret.out) :
            ret.out[k].conclusion \notin {"neutral", "success"}
       /\ IsSubseq(ret.out, arg.response)
       /\ Len(ret.out) = Cardinality(others)
       /\ (passed = DOMAIN arg.response) <=> (ret.out = <<>>)
  /\ ret.op = "generate_section" =>
       /\ \A k \in others : Includes(ret.out, RowOf(arg.response[k]))
       /\ (others = {}) => ~Includes(ret.out, <<"p1">>)

\* a response with a neutral and a skipped run: the skipped one is listed as
\* failed and has a row, the neutral one has not
C13_Witness ==
  /\ ret.op = "generate_section"
  /\ Len(arg.response) = 2
  /\ arg.response[1].conclusion = "neutral"
  /\ arg.response[2].conclusion = "skipped"
  /\ ret.first = <<arg.response[2]>>
  /\ Includes(ret.out, RowOf(arg.response[2]))

\* C17: generate_section returns, one per line, the tag, the heading with
\* the workflow name, then the line "No jobs failed" exactly when there is no
\* failed run, else the table header and one row per failed run, in the order
\* supplied, each with the title and the URL of its run
C17_SectionLayout ==
  ret.op = "generate_section" =>
    LET lines == Split(ret.out, <<"n">>)
        failed_runs == ret.first
    IN /\ Len(lines) >= 3
       /\ lines[1] = Tag(arg.this.workflow)
       /\ lines[2] = <<"h">> \o arg.this.workflow
       /\ (failed_runs = <<>>) <=> Includes(ret.out, <<"ok">>)
       /\ (failed_runs = <<>>) => lines = <<lines[1], lines[2], <<"ok">> >>
       /\ (failed_runs # <<>>) =>
            /\ Len(lines) = 4 + Len(failed_runs)
            /\ lines[3] = <<"th">>
            /\ lines[4] = <<"tr">>
            /\ \A k \in 1..Len(failed_runs) :
                 lines[4 + k] = <<"p1">> \o failed_runs[k].title \o <<"p2">>
                                \o failed_runs[k].html_url \o <<"p3">>

\* the section of two failed runs of different jobs
C17_Witness ==
  /\ ret.op = "generate_section"
  /\ Len(ret.first) = 2
  /\ ret.first[1].title # ret.first[2].title
  /\ ret.first[1].html_url # ret.first[2].html_url
  /\ Len(Split(ret.out, <<"n">>)) = 6

-----------------------------------------------------------------------------
(* Properties of run, under SpecSeq (continued) *)

\* C14: a remote call that fails is the last call of its invocation, which
\* ends there; no call is made twice for the same pull request; what the
\* invocation wrote before the failure stays written, and the pull requests
\* after the one being processed have no call at all
C14_FailureAborts ==
  \A i \in Invs :
    LET r  == inv[i]
        cs == r.calls
    IN /\ \A n \in 1..Len(cs) :
            ~cs[n].ok => (n = Len(cs) /\ r.pc = "failed")
       /\ r.pc = "failed" => (Len(cs) > 0 /\ ~cs[Len(cs)].ok)
       /\ \A n, m \in 1..Len(cs) :
            (cs[n].op = cs[m].op /\ cs[n].pr = cs[m].pr) => n = m
       /\ \A n \in 1..Len(cs) :
            /\ (cs[n].ok /\ cs[n].op \in {"issues.createComment",
                                          "issues.updateComment"})
                 => /\ cs[n].id \in 1..Len(comments[cs[n].pr])
                    /\ comments[cs[n].pr][cs[n].id] = cs[n].body
            /\ (cs[n].ok /\ cs[n].op = "issues.addLabels")
                 => cs[n].pr \in labels
       /\ r.pc = "failed" =>
            \A n \in (r.k + 1)..Len(r.prs) : CallsFor(i, r.prs[n]) = <<>>

\* an invocation commented and labelled its first pull request, then failed
\* on a call for the second one
C14_Witness ==
  \E i \in Invs :
    LET r == inv[i] IN
    /\ r.pc = "failed"
    /\ r.k = 2
    /\ \E n \in 1..Len(r.calls) :
         /\ r.calls[n].op = "issues.createComment"
         /\ r.calls[n].pr = r.prs[1]
    /\ r.prs[1] \in labels
    /\ r.calls[Len(r.calls)].pr = r.prs[2]

-----------------------------------------------------------------------------
(* Properties of interleaved invocations, under Spec *)

\* invocation i has listed the comments of pr and updated one of them
HasUpdated(i, pr) ==
  LET cs == CallsFor(i, pr) IN
  /\ Len(cs) >= 2
  /\ cs[1].op = "issues.listComments"
  /\ cs[2].op = "issues.updateComment"
  /\ cs[2].ok

\* the updateComment call of invocation i for pr
UpdateOf(i, pr) == CallsFor(i, pr)[2]

\* the body of the comment as invocation i read it before updating it
SnapshotOf(i, pr) == CallsFor(i, pr)[1].listing[UpdateOf(i, pr).id]

\* invocations i and j of different workflows read the same body of the
\* comment before either wrote it; i wrote first, j wrote over i's body
Raced(i, j, pr) ==
  /\ i # j
  /\ inv[i].this.workflow # inv[j].this.workflow
  /\ HasUpdated(i, pr)
  /\ HasUpdated(j, pr)
  /\ UpdateOf(i, pr).id = UpdateOf(j, pr).id
  /\ SnapshotOf(i, pr) = SnapshotOf(j, pr)
  /\ UpdateOf(i, pr).old = SnapshotOf(i, pr)
  /\ UpdateOf(j, pr).old = UpdateOf(i, pr).body

InSeq(x, list) == \E k \in 1..Len(list) : list[k] = x

\* C15: when two invocations of different workflows both read the comment
\* before either writes, the comment ends with exactly the body of the later
\* updateComment; that body is made of the sections both had read and the
\* later writer's section, and the section the earlier writer had put in is
\* not in it
C15_LastWriterWins ==
  \A i, j \in Invs : \A pr \in PRs :
    Raced(i, j, pr) =>
      LET later == UpdateOf(j, pr)
          read  == Sections(SnapshotOf(j, pr))
          final == Sections(later.body)
      IN /\ comments[pr][later.id] = later.body
         /\ \A k \in 1..Len(final) :
              InSeq(final[k], read) \/ final[k] = inv[j].section
         /\ InSeq(inv[j].section, final)
         /\ ~InSeq(inv[i].section, read) => ~InSeq(inv[i].section, final)

\* two invocations raced on a comment that had neither workflow's current
\* section: the earlier writer's section was in the comment and is gone
C15_Witness ==
  \E i, j \in Invs : \E pr \in PRs :
    /\ Raced(i, j, pr)
    /\ ~InSeq(inv[i].section, Sections(SnapshotOf(i, pr)))
    /\ InSeq(inv[i].section, Sections(UpdateOf(i, pr).body))
    /\ ~InSeq(inv[i].section, Sections(comments[pr][UpdateOf(j, pr).id]))

-----------------------------------------------------------------------------
(* Properties of run when no job title contains the separator or a
   Signature, under SpecClean *)

\* body is the Signature of head_commit followed by sections, each after a
\* separator and each beginning with a line that is a workflow's tag
Grammar(body, head_commit) ==
  LET pieces == Pieces(body) IN
  /\ pieces[1] = Signature(head_commit)
  /\ \A m \in 2..Len(pieces) :
       /\ \E w \in Workflows : BeginsWith(pieces[m], Tag(w) \o <<"n">>)
       /\ \A c \in Commits : ~Includes(pieces[m], Signature(c))

\* C16: every body createComment or updateComment writes, and so every
\* comment holding a Signature, is the Signature once, as the first piece,
\* followed by sections that each begin with a tag line
C16_BodyGrammar ==
  /\ \A i \in Invs : \A n \in 1..Len(inv[i].calls) :
       LET c == inv[i].calls[n] IN
       (c.ok /\ c.op \in {"issues.createComment", "issues.updateComment"})
         => Grammar(c.body, inv[i].this.head_commit)
  /\ \A p \in PRs : \A k \in 1..Len(comments[p]) :
       (\E c \in Commits : Includes(comments[p][k], Signature(c)))
         => \E c \in Commits : Grammar(comments[p][k], c)

\* an update has written a body with the sections of both workflows
C16_Witness ==
  \E i \in Invs : \E n \in Updates(i) :
    LET c == inv[i].calls[n] IN
    /\ Len(Pieces(c.body)) = 3
    /\ Len(Pieces(c.old)) = 2
    /\ comments[c.pr][c.id] = c.body

-----------------------------------------------------------------------------
(* Properties of find_comment, under SpecSeq *)

\* the comments of a listing that contain the Signature of head_commit
SignedIn(listing, head_commit) ==
  {k \in 1..Len(listing) : Includes(listing[k], Signature(head_commit))}

\* C18: the comment an invocation updates is the first of the listing that
\* contains the Signature; no comment is added and every other comment of
\* the pull request, the later ones containing the Signature included, keeps
\* the body it had in the listing
C18_OnlyFirstSignedUpdated ==
  \A i \in Invs : \A pr \in PRs :
    HasUpdated(i, pr) =>
      LET listing == CallsFor(i, pr)[1].listing
          u       == UpdateOf(i, pr)
          signed  == SignedIn(listing, inv[i].this.head_commit)
      IN /\ u.id \in signed
         /\ \A k \in signed : u.id <= k
         /\ \A n \in 3..Len(CallsFor(i, pr)) :
              CallsFor(i, pr)[n].op = "issues.addLabels"
         /\ Len(comments[pr]) = Len(listing)
         /\ comments[pr][u.id] = u.body
         /\ \A k \in 1..Len(listing) :
              k # u.id => comments[pr][k] = listing[k]

\* two comments of the listing contained the Signature: the first has a new
\* body, the second has the body it had
C18_Witness ==
  \E i \in Invs : \E pr \in PRs :
    /\ HasUpdated(i, pr)
    /\ LET listing == CallsFor(i, pr)[1].listing
           u       == UpdateOf(i, pr)
           signed  == SignedIn(listing, inv[i].this.head_commit)
       IN /\ Cardinality(signed) >= 2
          /\ u.body # u.old
          /\ \E k \in signed : k > u.id /\ comments[pr][k] = listing[k]

\* the comments of a listing whose Signature, at their head, names head_commit
HeadedIn(listing, head_commit) ==
  {k \in 1..Len(listing) : BeginsWith(listing[k], Signature(head_commit))}

\* invocation i has listed the comments of pr and made its next call
HasActed(i, pr) ==
  LET cs == CallsFor(i, pr) IN
  /\ Len(cs) >= 2
  /\ cs[1].op = "issues.listComments"
  /\ cs[2].ok

\* what C20 says of invocation i and pull request pr
OtherCommitsKept(i, pr) ==
  LET cs      == CallsFor(i, pr)
      listing == cs[1].listing
      commit  == inv[i].this.head_commit
  IN /\ \A c \in Commits \ {commit} : \A k \in HeadedIn(listing, c) :
          /\ comments[pr][k] = listing[k]
          /\ cs[2].op = "issues.updateComment" => cs[2].id # k
     /\ cs[2].op = "issues.updateComment" => cs[2].id \in HeadedIn(listing, commit)
     /\ (HeadedIn(listing, commit) = {} /\ inv[i].failed_runs # <<>>) =>
          /\ cs[2].op = "issues.createComment"
          /\ Len(comments[pr]) = Len(listing) + 1
          /\ BeginsWith(comments[pr][Len(listing) + 1], Signature(commit))

\* C20 as stated: an invocation for commit c updates no comment whose
\* Signature names another commit, those comments keep their body, and with
\* failed runs and no comment for c a new comment is created
C20_OtherCommitUntouched ==
  \A i \in Invs : \A pr \in PRs :
    HasActed(i, pr) => OtherCommitsKept(i, pr)

\* C20: the same, for a pull request none of whose comments contains the
\* Signature of c anywhere but at its head
C20_OtherCommitUntouchedUnlessQuoted ==
  \A i \in Invs : \A pr \in PRs :
    LET listing == CallsFor(i, pr)[1].listing
        commit  == inv[i].this.head_commit
    IN ( /\ HasActed(i, pr)
         /\ SignedIn(listing, commit) = HeadedIn(listing, commit) )
       => OtherCommitsKept(i, pr)

\* an invocation with failed runs found the comment of another commit only:
\* it created a second comment and the first has the body it had
C20_Witness ==
  \E i \in Invs : \E pr \in PRs :
    /\ HasActed(i, pr)
    /\ LET listing == CallsFor(i, pr)[1].listing
           commit  == inv[i].this.head_commit
       IN /\ SignedIn(listing, commit) = {}
          /\ \E c \in Commits \ {commit} : \E k \in HeadedIn(listing, c) :
               comments[pr][k] = listing[k]
          /\ CallsFor(i, pr)[2].op = "issues.createComment"
          /\ Len(comments[pr]) = Len(listing) + 1

-----------------------------------------------------------------------------
(* Properties of run after invocations without failed call, under SpecClean *)

\* the sections of body that begin with the tag line of workflow
TaggedSections(body, workflow) ==
  {m \in 1..Len(Sections(body)) :
     BeginsWith(Sections(body)[m], Tag(workflow) \o <<"n">>)}

\* C19: after invocations without failed call, run one after another, for
\* every workflow that wrote to the comment of a commit on a pull request
\* since that comment exists, the comment has exactly one section tagged
\* with the workflow and it is the section the workflow rendered last
C19_NoStaleSection ==
  failures = 0 =>
    \A p \in PRs : \A c \in Commits : \A w \in Workflows :
      latest[p][<<c, w>>] # <<>> =>
        LET k == Find(comments[p], Signature(c)) IN
        /\ k # 0
        /\ Cardinality(TaggedSections(comments[p][k], w)) = 1
        /\ \A m \in TaggedSections(comments[p][k], w) :
             Sections(comments[p][k])[m] = latest[p][<<c, w>>]

====
